---- MODULE Spec2Model ----
(***************************************************************************)
(* State-machine model of the storefront backend in src/main.py: the       *)
(* catalog handlers (list_products, create_product, get_product) and the   *)
(* order pricing handler (create_order) over the "product" and "order"     *)
(* collections of the document store.                                      *)
(*                                                                         *)
(* Conventions.                                                            *)
(*  - A Python Optional is a sequence of length 0 (None) or 1 (a value).   *)
(*  - A Python str that the code inspects character by character (an id,   *)
(*    a title, a search pattern) is a sequence of one-character strings.   *)
(*  - A price or a total is an integer number of thousandths (mills).  The *)
(*    fixture prices are multiples of 1/8, so every product and sum the    *)
(*    handler forms is exact in binary floating point and round(x, 2) is   *)
(*    the round-half-to-even of the exact value.                           *)
(*  - A handler is one action.  get_product, list_products and             *)
(*    create_product make one store call each.  create_order makes one     *)
(*    lookup per item and one insert; the only concurrent change a lookup  *)
(*    can observe is a product inserted by create_product (records are     *)
(*    never updated or deleted), so an interleaved run has the outcome of  *)
(*    the run in which that insert is ordered before or after the whole    *)
(*    create_order.                                                        *)
(***************************************************************************)
EXTENDS Integers, Sequences, FiniteSets, TLC

VARIABLES db, product, order, resp

vars == <<db, product, order, resp>>

None == <<>>

Some(x) == <<x>>

\* ------------------------------------------------------------------ bounds

\* The store holds at most MaxRecords records over its two collections.
MaxRecords == 3

\* ------------------------------------------------------- native identifiers

\* Number of hex digits of an identifier string (24 in bson, scaled down).
IdLen == 2

\* int(c, 16) of one character; -1 when c is no hex digit.
HexValue(c) ==
    CASE c = "1" -> 1
      [] c = "a" -> 10
      [] c = "A" -> 10
      [] OTHER -> 0 - 1

\* The lower-case hex digit of a nibble, as str(ObjectId) renders it.
HexChar(n) == IF n = 1 THEN "1" ELSE "a"

\* ObjectId(s): the native identifier of a string of IdLen hex digits of
\* either case; anything else raises InvalidId (ok = FALSE).
ObjectId(s) ==
    IF Len(s) = IdLen /\ \A i \in 1..Len(s) : HexValue(s[i]) >= 0
    THEN [ok |-> TRUE, oid |-> [i \in 1..Len(s) |-> HexValue(s[i])]]
    ELSE [ok |-> FALSE, oid |-> None]

\* str(oid): the lower-case hex rendering of a native identifier.
Str(oid) == [i \in 1..Len(oid) |-> HexChar(oid[i])]

\* The identifiers the store assigns, in the order it generates them.
GeneratedIds == << <<1, 1>>, <<1, 10>>, <<10, 1>>, <<10, 10>> >>

\* ------------------------------------------------------------ the store

\* dict.get(k, default)
Get(d, k, default) == IF k \in DOMAIN d THEN d[k] ELSE default

ToLower(c) ==
    CASE c = "A" -> "a"
      [] c = "D" -> "d"
      [] c = "E" -> "e"
      [] c = "G" -> "g"
      [] c = "T" -> "t"
      [] c = "W" -> "w"
      [] OTHER -> c

\* {"$regex": pattern, "$options": "i"}: an unanchored search in which "."
\* stands for any one character and letters match in either case.
RegexSearch(pattern, text) ==
    \E off \in 0..(Len(text) - Len(pattern)) :
        \A k \in 1..Len(pattern) :
            \/ pattern[k] = "."
            \/ ToLower(pattern[k]) = ToLower(text[off + k])

\* Whether a stored document satisfies a filter document (all keys ANDed).
MatchesFilter(d, filt) ==
    /\ "category" \in DOMAIN filt => d.category = filt.category
    /\ "title" \in DOMAIN filt => RegexSearch(filt.title.regex, d.title)

\* collection.find_one({"_id": oid}): the document as an Optional.
find_one(coll, oid) ==
    LET hits == SelectSeq(coll, LAMBDA d : d._id = oid)
    IN  IF Len(hits) = 0 THEN None ELSE Some(hits[1])

\* get_documents(collection, filt, limit): the first `limit` matching
\* documents in insertion order.
get_documents(coll, filt, limit) ==
    LET hits == SelectSeq(coll, LAMBDA d : MatchesFilter(d, filt))
    IN  SubSeq(hits, 1, IF limit < Len(hits) THEN limit ELSE Len(hits))

\* create_document(collection, data): the collection with the new record
\* appended under a freshly generated identifier.
create_document(coll, data) ==
    Append(coll, [k \in DOMAIN data \cup {"_id"} |->
                    IF k = "_id" THEN GeneratedIds[Len(coll) + 1] ELSE data[k]])

\* d["id"] = str(d["_id"]); d.pop("_id")
WithStringId(d) ==
    [k \in (DOMAIN d \ {"_id"}) \cup {"id"} |->
        IF k = "id" THEN Str(d._id) ELSE d[k]]

\* ------------------------------------------------------------- inputs

Widget == [title |-> <<"W", "i", "d", "g", "e", "t">>, category |-> "tools",
           price |-> 125]

Gadget == [title |-> <<"G", "a", "d", "g", "e", "t">>, category |-> "electronics",
           price |-> 19500]

ProductInputs == {Widget, Gadget}

\* A record written to the collection before this process started, with no
\* price field.
LegacyProduct == [_id |-> GeneratedIds[1], title |-> <<"b", "a", "g">>,
                  category |-> "tools"]

IdStrings == { <<"1", "1">>, <<"1", "A">>, <<"a", "a">>, <<"1", "g">>, <<"1">> }

OrderItems ==
    { [product_id |-> <<"1", "1">>, quantity |-> 2],
      [product_id |-> <<"1", "A">>, quantity |-> 1],
      [product_id |-> <<"a", "a">>, quantity |-> 1],
      [product_id |-> <<"1", "g">>, quantity |-> 1] }

ItemLists ==
    {<<>>} \cup {<<a>> : a \in OrderItems} \cup {<<a, b>> : a, b \in OrderItems}

\* The total a client may put in the payload itself.
ClientTotals == {None, Some(1)}

OrderInputs == {[items |-> il, total |-> t] : il \in ItemLists, t \in ClientTotals}

Categories == {None, Some(""), Some("tools"), Some("Tools")}

Queries == {None, Some(<<>>), Some(<<"g", "a", "d", "g", "e", "t">>),
            Some(<<"W", ".", "D">>)}

Limits == {1, MaxRecords}

\* ------------------------------------------------------------ responses

\* One handled request: the operation and its argument, the HTTP status and
\* detail (or the body) returned, and the work done on the way: identifier
\* parses, product lookups and store writes.
Response(op, arg, status, detail, body, parses, lookups, writes) ==
    [op |-> op, arg |-> arg, status |-> status, detail |-> detail, body |-> body,
     parses |-> parses, lookups |-> lookups, writes |-> writes]

\* ------------------------------------------------------------ get_product

\* The try block of get_product: the value it returns or what it raises.
GetProductTry(product_id) ==
    LET parsed == ObjectId(product_id)
    IN  IF ~parsed.ok
        THEN [raised |-> "InvalidId", status |-> 500,
              detail |-> <<"Internal Server Error">>, value |-> None,
              parses |-> 1, lookups |-> 0]
        ELSE LET doc == find_one(product, parsed.oid)
             IN  IF doc = None
                 THEN [raised |-> "HTTPException", status |-> 404,
                       detail |-> <<"Product not found">>, value |-> None,
                       parses |-> 1, lookups |-> 1]
                 ELSE [raised |-> "none", status |-> 200, detail |-> <<>>,
                       value |-> Some(WithStringId(doc[1])),
                       parses |-> 1, lookups |-> 1]

get_product_NoExcept(product_id) ==
    IF db = None
    THEN Response("getProduct", product_id, 500, <<"Database not available">>,
                  None, 0, 0, 0)
    ELSE LET t == GetProductTry(product_id)
         IN  Response("getProduct", product_id, t.status, t.detail, t.value,
                      t.parses, t.lookups, 0)

\* get_product: `except Exception` catches whatever the try block raises,
\* the HTTPException of the not-found branch included.
get_product(product_id) ==
    IF db = None
    THEN Response("getProduct", product_id, 500, <<"Database not available">>,
                  None, 0, 0, 0)
    ELSE LET t == GetProductTry(product_id)
         IN  IF t.raised # "none"
             THEN Response("getProduct", product_id, 400, <<"Invalid product ID">>,
                           None, t.parses, t.lookups, 0)
             ELSE Response("getProduct", product_id, 200, <<>>, t.value,
                           t.parses, t.lookups, 0)

GetProduct_WritesThrough ==
    \E product_id \in IdStrings :
        /\ resp' = get_product(product_id)
        /\ product' = [i \in 1..Len(product) |->
                          IF resp'.status = 200 /\ Str(product[i]._id) = resp'.body[1].id
                          THEN [k \in DOMAIN product[i] \cup {"id"} |->
                                  IF k = "id" THEN Str(product[i]._id) ELSE product[i][k]]
                          ELSE product[i]]
        /\ UNCHANGED <<db, order>>

GetProduct ==
    \E product_id \in IdStrings :
        /\ resp' = get_product(product_id)
        /\ UNCHANGED <<db, product, order>>

\* ----------------------------------------------------------- list_products

\* Python truthiness of an Optional[str]: None and the empty string are falsy.
Truthy(opt, empty) == opt # None /\ opt[1] # empty

ListFilter_QueryReplacesCategory(category, q) ==
    IF Truthy(q, <<>>) THEN [title |-> [regex |-> q[1], options |-> "i"]]
    ELSE IF Truthy(category, "") THEN [category |-> category[1]]
    ELSE <<>>

\* The filter document list_products builds from its query parameters.
ListFilter(category, q) ==
    [k \in (IF Truthy(category, "") THEN {"category"} ELSE {})
            \cup (IF Truthy(q, <<>>) THEN {"title"} ELSE {}) |->
        IF k = "category" THEN category[1]
        ELSE [regex |-> q[1], options |-> "i"]]

MapDocs(docs) == [i \in 1..Len(docs) |-> WithStringId(docs[i])]

list_products_RaisesWhenUnavailable(category, q, limit) ==
    LET arg == [category |-> category, q |-> q, limit |-> limit]
    IN  IF db = None
        THEN Response("listProducts", arg, 500, <<"Database not available">>,
                      None, 0, 0, 0)
        ELSE Response("listProducts", arg, 200, <<>>,
                      Some(MapDocs(get_documents(product, ListFilter(category, q), limit))),
                      0, 0, 0)

list_products(category, q, limit) ==
    LET arg == [category |-> category, q |-> q, limit |-> limit]
    IN  IF db = None
        THEN Response("listProducts", arg, 200, <<>>, Some(<<>>), 0, 0, 0)
        ELSE Response("listProducts", arg, 200, <<>>,
                      Some(MapDocs(get_documents(product, ListFilter(category, q), limit))),
                      0, 0, 0)

ListProducts ==
    \E category \in Categories, q \in Queries, limit \in Limits :
        /\ resp' = list_products(category, q, limit)
        /\ UNCHANGED <<db, product, order>>

\* ---------------------------------------------------------- create_product

\* create_product: create_document raises when the store is unavailable, and
\* the handler turns that into a server fault.
CreateProduct ==
    \E p \in ProductInputs :
        IF db = None
        THEN /\ resp' = Response("createProduct", p, 500,
                                 <<"Database not available">>, None, 0, 0, 0)
             /\ UNCHANGED <<db, product, order>>
        ELSE /\ Len(product) + Len(order) < MaxRecords
             /\ product' = create_document(product, p)
             /\ resp' = Response("createProduct", p, 200, <<>>,
                                 Some(Str(product'[Len(product')]._id)), 0, 0, 1)
             /\ UNCHANGED <<db, order>>

\* ------------------------------------------------------------ create_order

\* round(x, 2) of a non-negative amount in mills: to the nearest cent, a tie
\* going to the even cent.
Round2(x) ==
    LET cents == x \div 10
        rest  == x % 10
    IN  IF rest < 5 THEN cents * 10
        ELSE IF rest > 5 THEN (cents + 1) * 10
        ELSE IF cents % 2 = 0 THEN cents * 10 ELSE (cents + 1) * 10

RECURSIVE PriceItems_IgnoresQuantity(_, _, _)
PriceItems_IgnoresQuantity(items, i, total) ==
    IF i > Len(items)
    THEN [raised |-> "none", status |-> 200, detail |-> <<>>, total |-> total,
          parses |-> Len(items), lookups |-> Len(items)]
    ELSE LET item   == items[i]
             parsed == ObjectId(item.product_id)
         IN  IF ~parsed.ok
             THEN [raised |-> "InvalidId", status |-> 500,
                   detail |-> <<"Internal Server Error">>, total |-> total,
                   parses |-> i, lookups |-> i - 1]
             ELSE LET prod == find_one(product, parsed.oid)
                  IN  IF prod = None
                      THEN [raised |-> "HTTPException", status |-> 404,
                            detail |-> <<"Product not found: ", item.product_id>>,
                            total |-> total, parses |-> i, lookups |-> i]
                      ELSE PriceItems_IgnoresQuantity(items, i + 1,
                               total + Get(prod[1], "price", 0))

\* The pricing loop of create_order from item i on, with the accumulator
\* `total`: the sum, or the exception that ends the handler.  ObjectId's
\* InvalidId is not caught, so it leaves the handler as an unhandled error.
RECURSIVE PriceItems(_, _, _)
PriceItems(items, i, total) ==
    IF i > Len(items)
    THEN [raised |-> "none", status |-> 200, detail |-> <<>>, total |-> total,
          parses |-> Len(items), lookups |-> Len(items)]
    ELSE LET item   == items[i]
             parsed == ObjectId(item.product_id)
         IN  IF ~parsed.ok
             THEN [raised |-> "InvalidId", status |-> 500,
                   detail |-> <<"Internal Server Error">>, total |-> total,
                   parses |-> i, lookups |-> i - 1]
             ELSE LET prod == find_one(product, parsed.oid)
                  IN  IF prod = None
                      THEN [raised |-> "HTTPException", status |-> 404,
                            detail |-> <<"Product not found: ", item.product_id>>,
                            total |-> total, parses |-> i, lookups |-> i]
                      ELSE PriceItems(items, i + 1,
                               total + Get(prod[1], "price", 0) * item.quantity)

OrderPayload_KeepsClientTotal(o, total) ==
    IF o.total # None THEN [items |-> o.items, total |-> o.total[1]]
    ELSE [items |-> o.items, total |-> Round2(total)]

\* payload = order.model_dump(); payload["total"] = round(total, 2)
OrderPayload(o, total) == [o EXCEPT !.total = Round2(total)]

create_order_PersistsPartial(o) ==
    IF db = None
    THEN [status |-> 500, detail |-> <<"Database not available">>,
          payload |-> None, parses |-> 0, lookups |-> 0]
    ELSE LET p == PriceItems(o.items, 1, 0)
         IN  [status |-> p.status, detail |-> p.detail,
              payload |-> Some(OrderPayload(o, p.total)),
              parses |-> p.parses, lookups |-> p.lookups]

create_order_ChecksStoreLast(o) ==
    LET p == PriceItems(o.items, 1, 0)
    IN  IF p.raised # "none"
        THEN [status |-> p.status, detail |-> p.detail, payload |-> None,
              parses |-> p.parses, lookups |-> p.lookups]
        ELSE IF db = None
        THEN [status |-> 500, detail |-> <<"Database not available">>,
              payload |-> None, parses |-> p.parses, lookups |-> p.lookups]
        ELSE [status |-> 200, detail |-> <<>>,
              payload |-> Some(OrderPayload(o, p.total)),
              parses |-> p.parses, lookups |-> p.lookups]

\* What create_order answers and the payload it hands to create_document
\* (None when it writes nothing).
create_order(o) ==
    IF db = None
    THEN [status |-> 500, detail |-> <<"Database not available">>,
          payload |-> None, parses |-> 0, lookups |-> 0]
    ELSE LET p == PriceItems(o.items, 1, 0)
         IN  IF p.raised # "none"
             THEN [status |-> p.status, detail |-> p.detail, payload |-> None,
                   parses |-> p.parses, lookups |-> p.lookups]
             ELSE [status |-> 200, detail |-> <<>>,
                   payload |-> Some(OrderPayload(o, p.total)),
                   parses |-> p.parses, lookups |-> p.lookups]

CreateOrder ==
    \E o \in OrderInputs :
        LET r == create_order(o)
        IN  IF r.payload = None
            THEN /\ resp' = Response("createOrder", o, r.status, r.detail, None,
                                     r.parses, r.lookups, 0)
                 /\ UNCHANGED <<db, product, order>>
            ELSE /\ Len(product) + Len(order) < MaxRecords
                 /\ order' = create_document(order, r.payload[1])
                 /\ resp' = Response("createOrder", o, r.status, r.detail,
                                     Some(Str(order'[Len(order')]._id)),
                                     r.parses, r.lookups, 1)
                 /\ UNCHANGED <<db, product>>

\* ------------------------------------------------------------ the system

Idle == Response("none", None, 0, <<>>, None, 0, 0, 0)

\* The store is connected or not when the module is imported; a connected
\* store may already hold a record written before this process started.
Init ==
    /\ db \in {None, Some("connected")}
    /\ product \in (IF db = None THEN {<<>>} ELSE {<<>>, <<LegacyProduct>>})
    /\ order = <<>>
    /\ resp = Idle

Next ==
    \/ ListProducts
    \/ CreateProduct
    \/ GetProduct
    \/ CreateOrder

Spec == Init /\ [][Next]_vars

\* ------------------------------------------------ vocabulary of the claims

HexDigits == {"1", "a", "A"}

\* A string is well formed when it has the identifier length and only hex
\* digits; otherwise it is malformed.
WellFormed(s) == Len(s) = IdLen /\ \A i \in 1..Len(s) : s[i] \in HexDigits

LowerCased(s) == [i \in 1..Len(s) |-> ToLower(s[i])]

\* The positions of the stored products whose identifier, in string form, is
\* the string s up to the case of its letters.
ProductsNamed(s) ==
    {i \in 1..Len(product) : Str(product[i]._id) = LowerCased(s)}

Resolves(s) == ProductsNamed(s) # {}

\* The stored price of the product an identifier string refers to; a record
\* with no price field counts as 0.
StoredPrice(s) ==
    LET d == product[CHOOSE i \in ProductsNamed(s) : TRUE]
    IN  IF "price" \in DOMAIN d THEN d.price ELSE 0

RECURSIVE SumOfItems(_)
SumOfItems(items) ==
    IF items = <<>> THEN 0
    ELSE SumOfItems(SubSeq(items, 1, Len(items) - 1))
         + StoredPrice(items[Len(items)].product_id) * items[Len(items)].quantity

Distance(x, y) == IF x < y THEN y - x ELSE x - y

\* The whole number of cents nearest to an amount, the even one on a tie.
NearestCent(x) ==
    CHOOSE c \in {10 * (x \div 10), 10 * (x \div 10) + 10} :
        /\ 2 * Distance(x, c) <= 10
        /\ 2 * Distance(x, c) = 10 => (c \div 10) % 2 = 0

UnresolvedPositions(items) ==
    {i \in 1..Len(items) : ~Resolves(items[i].product_id)}

FirstUnresolved(items) ==
    items[CHOOSE i \in UnresolvedPositions(items) :
              \A j \in UnresolvedPositions(items) : i <= j]

IsAppendOne(old, new) ==
    Len(new) = Len(old) + 1 /\ SubSeq(new, 1, Len(old)) = old

Min(a, b) == IF a < b THEN a ELSE b

\* A filter constrains the listing when it is given at all.
SatisfiesGiven(d, category, q) ==
    /\ category # None => d.category = category[1]
    /\ q # None => RegexSearch(q[1], d.title)

\* A filter constrains the listing when it is given and not the empty string.
SatisfiesNonEmpty(d, category, q) ==
    /\ (category # None /\ category[1] # "") => d.category = category[1]
    /\ (q # None /\ q[1] # <<>>) => RegexSearch(q[1], d.title)

\* The response body lists, without repetition, stored products that satisfy
\* Sat, each under its string id, and as many of them as the limit allows.
ListsExactly(Sat(_, _, _)) ==
    LET body == resp.body[1]
        want == {i \in 1..Len(product) :
                    Sat(product[i], resp.arg.category, resp.arg.q)}
    IN  /\ resp.status = 200
        /\ Len(body) = Min(resp.arg.limit, Cardinality(want))
        /\ \A j \in 1..Len(body) :
              \E i \in want :
                  /\ body[j].id = Str(product[i]._id)
                  /\ "_id" \notin DOMAIN body[j]
                  /\ \A k \in DOMAIN product[i] \ {"_id"} :
                        k \in DOMAIN body[j] /\ body[j][k] = product[i][k]
        /\ \A j, k \in 1..Len(body) : body[j].id = body[k].id => j = k

\* ------------------------------------------------------------------ claims

\* C1: every record of the order collection has a total equal to
\* round(sum over its items, in order, of stored price x quantity, 2), a
\* product record with no price field counting as price 0.
C1_TotalIsRoundedSum ==
    \A n \in 1..Len(order) :
        order[n].total = NearestCent(SumOfItems(order[n].items))

\* A persisted two-item order over a product without a price and one whose
\* price x quantity is a tie between two cents.
C1_Witness ==
    \E n \in 1..Len(order) :
        /\ Len(order[n].items) = 2
        /\ order[n].items[1].product_id # order[n].items[2].product_id
        /\ "price" \notin DOMAIN product[1]
        /\ SumOfItems(order[n].items) = 125
        /\ order[n].total = 120

\* C2: a createOrder call whose items contain a product_id that does not
\* resolve to a stored product (at any position, well formed or not) leaves
\* the order collection as it was.
C2_UnresolvedPersistsNothing ==
    [][(resp'.op = "createOrder" /\ UnresolvedPositions(resp'.arg.items) # {})
          => order' = order]_vars

\* A failed order whose first item resolves and whose second does not, with
\* an earlier order in the collection.
C2_Witness ==
    /\ resp.op = "createOrder"
    /\ Len(resp.arg.items) = 2
    /\ UnresolvedPositions(resp.arg.items) = {2}
    /\ resp.status # 200
    /\ Len(order) > 0

\* C3: with the store available, createOrder on an order whose first
\* unresolvable item has product_id p fails with a not-found error whose
\* message names p, whether p is well formed but absent or malformed.
C3_NotFoundNamesFirstUnresolved ==
    (resp.op = "createOrder" /\ db # None
        /\ UnresolvedPositions(resp.arg.items) # {})
    => /\ resp.status = 404
       /\ resp.detail = <<"Product not found: ",
                          FirstUnresolved(resp.arg.items).product_id>>

\* C4: with the store available, getProduct on a well-formed identifier that
\* matches no stored product answers not-found (404), not a malformed
\* identifier error and not a server fault.
C4_AbsentIdIsNotFound ==
    (resp.op = "getProduct" /\ db # None /\ WellFormed(resp.arg)
        /\ ~Resolves(resp.arg))
    => resp.status = 404

\* C5: with the store available, getProduct on a string that cannot be parsed
\* into a native identifier answers the malformed-identifier client error
\* (400), never not-found, a server fault or a product.
C5_MalformedIdIsClientError ==
    (resp.op = "getProduct" /\ db # None /\ ~WellFormed(resp.arg))
    => /\ resp.status = 400
       /\ resp.detail = <<"Invalid product ID">>
       /\ resp.body = None

\* getProduct has answered a string with a character that is no hex digit
\* while the catalog holds products.
C5_Witness ==
    /\ resp.op = "getProduct"
    /\ db # None
    /\ Len(resp.arg) = IdLen
    /\ ~WellFormed(resp.arg)
    /\ Len(product) > 0
    /\ resp.status = 400

\* C6: two persisted orders with the same item sequence have the same total,
\* whatever total the client put in either payload.
C6_TotalIgnoresClientFields ==
    \A m, n \in 1..Len(order) :
        order[m].items = order[n].items => order[m].total = order[n].total

\* Two persisted orders with the same non-empty items, the later one
\* submitted with a client total other than the total persisted.
C6_Witness ==
    /\ Len(order) = 2
    /\ order[1].items = order[2].items
    /\ order[1].items # <<>>
    /\ resp.op = "createOrder"
    /\ resp.status = 200
    /\ resp.arg.total # None
    /\ resp.arg.total[1] # order[2].total

\* C7 as stated: with the store available, listProducts returns exactly the
\* stored products (up to limit) that satisfy every filter that is given.
C7_ListsProductsSatisfyingGivenFilters ==
    (resp.op = "listProducts" /\ db # None) => ListsExactly(SatisfiesGiven)

\* C7 amended: with the store available, listProducts returns exactly the
\* stored products (up to limit) that satisfy every filter that is given and
\* not the empty string; an absent or empty filter imposes no constraint.
C7_ListsProductsSatisfyingNonEmptyFilters ==
    (resp.op = "listProducts" /\ db # None) => ListsExactly(SatisfiesNonEmpty)

\* A listing with an empty category and a pattern that one stored product
\* matches and another does not.
C7_Witness ==
    /\ resp.op = "listProducts"
    /\ db # None
    /\ resp.arg.category = Some("")
    /\ resp.arg.q # None
    /\ resp.arg.q[1] # <<>>
    /\ Len(resp.body[1]) = 1
    /\ Len(product) > 1

\* C8: with the store unavailable, listProducts answers an empty sequence and
\* raises no fault, for every category, q and limit.
C8_UnavailableListsNothing ==
    (resp.op = "listProducts" /\ db = None)
    => resp.status = 200 /\ resp.body = Some(<<>>)

\* A listing with both filters given while the store is unavailable.
C8_Witness ==
    /\ resp.op = "listProducts"
    /\ db = None
    /\ Truthy(resp.arg.category, "")
    /\ Truthy(resp.arg.q, <<>>)

\* C9: with the store unavailable, createOrder and getProduct fail with the
\* store-unavailable server fault before parsing an identifier, looking up a
\* product or writing, for every input.
C9_UnavailableFailsBeforeAnyWork ==
    (resp.op \in {"createOrder", "getProduct"} /\ db = None)
    => /\ resp.status = 500
       /\ resp.detail = <<"Database not available">>
       /\ resp.parses = 0
       /\ resp.lookups = 0
       /\ resp.writes = 0

\* createOrder has answered an order whose first item is malformed while the
\* store is unavailable.
C9_Witness ==
    /\ resp.op = "createOrder"
    /\ db = None
    /\ Len(resp.arg.items) > 0
    /\ ~WellFormed(resp.arg.items[1].product_id)
    /\ resp.status = 500

\* C10: a successful createOrder appends one order and changes nothing else;
\* a successful createProduct appends one product and changes nothing else;
\* a failed request, getProduct and listProducts change neither collection.
C10_CollectionsAreInsertOnly ==
    [][/\ resp'.op \in {"getProduct", "listProducts"}
          => product' = product /\ order' = order
       /\ resp'.op = "createOrder"
          => /\ product' = product
             /\ IF resp'.status = 200 THEN IsAppendOne(order, order')
                ELSE order' = order
       /\ resp'.op = "createProduct"
          => /\ order' = order
             /\ IF resp'.status = 200 THEN IsAppendOne(product, product')
                ELSE product' = product]_vars

\* A second order has been appended behind the first.
C10_Witness ==
    /\ resp.op = "createOrder"
    /\ resp.status = 200
    /\ Len(order) = 2
    /\ Len(product) > 0

====
